---- MODULE Spec2Model ----
(***************************************************************************)
(* The anomaly-detection and auto-blocking engine of ip_tracking:          *)
(* the request-logging middleware, the block_ip command, the hourly        *)
(* detect_anomalies job (four detectors and auto_block_suspicious_ips)     *)
(* and the daily cleanup_old_suspicious_records job, over the three        *)
(* tables RequestLog, SuspiciousIP and BlockedIP.                          *)
(*                                                                         *)
(* Time is in seconds.  A table is the set of its rows; RequestLog, whose  *)
(* rows are not unique, is a bag: a function from a row to the number of   *)
(* stored copies of it.  The columns no query of tasks.py reads            *)
(* (RequestLog.city, the primary keys) are left out.                       *)
(***************************************************************************)
EXTENDS Integers, Sequences, FiniteSets, TLC

VARIABLES
    now,        \* timezone.now(): the wall clock
    log,        \* RequestLog: bag of rows [ip_address, timestamp, path, country]
    flags,      \* SuspiciousIP: set of rows
    blocks,     \* BlockedIP: set of rows [ip_address, created_at, reason]
    pc,         \* where the running detect_anomalies job stands ("idle": none runs)
    window,     \* (one_hour_ago, now) as read at the start of the running job
    result,     \* how the last detect_anomalies job ended: "returned" or "raised"
    batches,    \* number of request batches served so far
    failures,   \* number of store accesses that raised so far
    sweeps,     \* number of cleanup_old_suspicious_records jobs run so far
    deleted_records, \* what the last cleanup job returned
    runs,       \* number of detect_anomalies jobs started so far
    other,      \* a second detect_anomalies job that overlaps the first: its position,
                \* its window and the candidates its first detector has left
    sweep,      \* the running cleanup job: <<>> if none runs, else <<its timezone.now()>>
    response    \* what process_request returned to the last batch of requests

vars == <<now, log, flags, blocks, pc, window, result, batches, failures, sweeps, deleted_records, runs,
         other, sweep, response>>

(***************************************************************************)
(* Bounds of the model.                                                    *)
(***************************************************************************)
MaxBatches == 2
MaxRuns == 2
\* the clock advances by at most this much while one job runs
MaxRunDuration == 1
\* the administrator runs block_ip, and resolves flags, at most this often
MaxCommands == 1
MaxResolved == 1
\* a store access raises at most this often
MaxFailures == 1

\* SpecDetect: batches and jobs
MaxDetectBatches == 3
MaxDetectRuns == 1
\* SpecSweep: batches and jobs
MaxSweepBatches == 1
MaxSweepRuns == 2
MaxSweeps == 2
\* SpecOverlap: batches and jobs of the first instance
MaxOverlapBatches == 2
MaxOverlapRuns == 2
\* SpecPairs: batches and jobs
MaxPairBatches == 3
MaxPairRuns == 1
\* SpecRoutes: batches and jobs
MaxRouteBatches == 2
MaxRouteRuns == 1

\* the clock readings at which something happens: the edges of the 6 h
\* cool-down and of the 24 h escalation window,
Instants == {0, 21599, 21600, 86400}

\* the edges of the 300 s burst span and of the 1 h window,
DetectInstants == {0, 299, 300, 3601}
\* the edges of the 30 d retention
SweepInstants == {0, 86400, 2592000, 2592001}

\* a null column
NULL == "NULL"

Ips == {"203.0.113.5", "198.51.100.9"}
\* the clients' batches of requests: (path, country the resolver attached,
\* number of requests)
Batches == {<<"/admin", "CN", 21>>, <<"/admin", "CN", 101>>,
            <<"/login", "RU", 21>>, <<"/home", "US", 51>>}
DetectBatches == {<<"/home", "US", 1>>, <<"/home", "US", 50>>, <<"/home", "US", 100>>,
                  <<"/admin", "CN", 1>>}
\* two clock readings a second apart, and one past the 1 h window
OverlapInstants == {0, 1, 3601}
OverlapBatches == {<<"/admin", "CN", 101>>, <<"/home", "US", 101>>}
\* batches at the thresholds of the detectors that count per (ip, path) and
\* per (ip, country), and one clock reading past the 1 h window
PairInstants == {0, 3601}
PairBatches == {<<"/admin", "CN", 5>>, <<"/login", "CN", 5>>, <<"/admin", "CN", 6>>,
                <<"/home", "CN", 6>>, <<"/home", "CN", 20>>, <<"/home", "CN", 21>>,
                <<"/home", "RU", 20>>, <<"/home", "US", 21>>, <<"/home", NULL, 21>>}
\* requests to the routed endpoints, request.path as Django gives it for the
\* routes of urlpatterns, and requests to /admin, which no route serves
RouteInstants == {0, 3601}
RouteBatches == {<<"/admin/", "CN", 6>>, <<"/api/login/", "CN", 6>>,
                 <<"/api/sensitive/", "CN", 6>>, <<"/admin", "CN", 6>>,
                 <<"/api/login/", "CN", 5>>}
SweepBatches == {<<"/admin", "CN", 21>>, <<"/admin", "CN", 101>>}

(***************************************************************************)
(* Program constants.                                                      *)
(***************************************************************************)
Hour == 3600
Day == 86400
WindowHours == 1
HighVolumeThreshold == 100
SensitiveThreshold == 5
BurstCandidateThreshold == 50
BurstMinCount == 50
BurstSeconds == 300
GeoThreshold == 20
CooldownHours == 6
EscalationHours == 24
EscalationThreshold == 3
RetentionDays == 30

\* urls.py 5-18: request.path of the requests the routes serve
urlpatterns == {"/admin/", "/api/login/", "/api/password-reset/", "/api/sensitive/",
                "/api/status/", "/api/data/"}

sensitive_paths == {"/admin", "/login", "/api/sensitive", "/password-reset", "/api/login"}
common_countries == {"US", "CA", "GB", "DE", "FR", "Local", "Unknown"}

HighVolumeMarker == "High volume"
SensitiveMarker == "Sensitive path access"
BurstMarker == "Burst pattern"
GeoMarker == "Geographic anomaly"
AutoBlockReason == "Auto-blocked: Multiple suspicious activities detected"
CommandReason == "Blocked via management command"

(***************************************************************************)
(* Helpers: aggregation over a bag, iteration orders of a query result.    *)
(***************************************************************************)
RECURSIVE SumOver(_, _)
SumOver(rows, bag) ==
    IF rows = {} THEN 0
    ELSE LET r == CHOOSE x \in rows : TRUE
         IN bag[r] + SumOver(rows \ {r}, bag)

\* Count('id') over the rows of the log that are in `rows`
Count(rows) == SumOver(rows, log)

\* a query without ORDER BY yields its rows in an order the database picks
Orderings(S) ==
    {s \in [1..Cardinality(S) -> S] : \A i, j \in DOMAIN s : s[i] = s[j] => i = j}

Min(S) == CHOOSE x \in S : \A y \in S : x <= y
Max(S) == CHOOSE x \in S : \A y \in S : x >= y

\* timestamp__range=(start, end): SQL BETWEEN, both ends included
InRange(ts, start, end) == start <= ts /\ ts <= end

RowsInRange(start, end) == {r \in DOMAIN log : InRange(r.timestamp, start, end)}

(***************************************************************************)
(* SuspiciousIP rows.  reason is the formatted text, kept as the sequence  *)
(* of its pieces; reason__contains looks for a piece.                      *)
(***************************************************************************)
Contains(reason, needle) == \E i \in DOMAIN reason : reason[i] = needle

SuspiciousIP(ip, reason, count, t) ==
    [ip_address |-> ip, reason |-> reason, detected_at |-> t,
     request_count |-> count, is_resolved |-> FALSE, auto_blocked |-> FALSE]

\* unique_together = ['ip_address', 'reason', 'detected_at']
UniqueTogether(fl, f) ==
    \A g \in fl : ~(g.ip_address = f.ip_address /\ g.reason = f.reason
                    /\ g.detected_at = f.detected_at)

\* RecentlyFlagged with a cool-down of one hour, the window's length
RecentlyFlaggedOneHour(fl, ip, marker, t) ==
    \E g \in fl : /\ g.ip_address = ip
                  /\ Contains(g.reason, marker)
                  /\ g.detected_at > t - WindowHours * Hour

\* RecentlyFlagged that looks at the ip's flags of every category
RecentlyFlaggedAnyCategory(fl, ip, marker, t) ==
    \E g \in fl : /\ g.ip_address = ip
                  /\ g.detected_at > t - CooldownHours * Hour

\* "Skip if already flagged recently"
RecentlyFlagged(fl, ip, marker, t) ==
    \E g \in fl : /\ g.ip_address = ip
                  /\ Contains(g.reason, marker)
                  /\ g.detected_at > t - CooldownHours * Hour

HighVolumeReason(count) ==
    <<HighVolumeMarker, " requests: ", ToString(count), " requests in 1 hour (threshold: 100)">>
SensitiveReason(count, path) ==
    <<SensitiveMarker, ": ", ToString(count), " attempts to ", path>>
BurstReason(count, duration) ==
    <<BurstMarker, ": ", ToString(count), " requests in ", ToString(duration), " seconds">>
GeoReason(count, country) ==
    <<GeoMarker, ": ", ToString(count), " requests from uncommon country (", country, ")">>

\* Create as update_or_create on (ip_address, category): the new row takes
\* the place of the ip's older rows of the category
CreateReplacing(fl, f, rest) ==
    IF UniqueTogether(fl, f)
    THEN [flags |-> rest.flags \ {g \in fl : /\ g.ip_address = f.ip_address
                                              /\ Head(g.reason) = Head(f.reason)},
          ok |-> rest.ok]
    ELSE [flags |-> fl, ok |-> FALSE]

(***************************************************************************)
(* The four detectors.  Each is its query (the candidates) and its loop    *)
(* over the query's rows; a loop yields the SuspiciousIP table it leaves   *)
(* and whether it ran to its end (ok) or a create raised IntegrityError.   *)
(***************************************************************************)
Create(fl, f, rest) ==
    IF UniqueTogether(fl, f) THEN rest ELSE [flags |-> fl, ok |-> FALSE]

\* high_volume_ips with request_count__gte
high_volume_ips_gte(start, end) ==
    LET rows == {r \in DOMAIN log : start <= r.timestamp /\ r.timestamp <= end}
    IN {[ip_address |-> ip, request_count |-> SumOver({r \in rows : r.ip_address = ip}, log)]
        : ip \in {r.ip_address : r \in {q \in rows :
                      SumOver({x \in rows : x.ip_address = q.ip_address}, log)
                          >= HighVolumeThreshold}}}

\* tasks.py 58-62
high_volume_ips(start, end) ==
    LET rows == RowsInRange(start, end)
        grouped == {[ip_address |-> ip,
                     request_count |-> Count({r \in rows : r.ip_address = ip})]
                    : ip \in {r.ip_address : r \in rows}}
    IN {g \in grouped : g.request_count > HighVolumeThreshold}

\* tasks.py 66-85
RECURSIVE HighVolumeLoop(_, _, _)
HighVolumeLoop(cands, fl, t) ==
    IF cands = <<>> THEN [flags |-> fl, ok |-> TRUE]
    ELSE LET ip_data == Head(cands)
             f == SuspiciousIP(ip_data.ip_address,
                               HighVolumeReason(ip_data.request_count),
                               ip_data.request_count, t)
         IN IF RecentlyFlagged(fl, ip_data.ip_address, HighVolumeMarker, t)
            THEN HighVolumeLoop(Tail(cands), fl, t)
            ELSE Create(fl, f, HighVolumeLoop(Tail(cands), fl \cup {f}, t))

\* sensitive_access_ips grouped by ip_address alone
sensitive_access_ips_by_ip(start, end) ==
    LET rows == {r \in DOMAIN log : /\ start <= r.timestamp /\ r.timestamp <= end
                                    /\ r.path \in sensitive_paths}
    IN {[ip_address |-> ip,
         path |-> CHOOSE p \in {r.path : r \in {q \in rows : q.ip_address = ip}} : TRUE,
         access_count |-> SumOver({r \in rows : r.ip_address = ip}, log)]
        : ip \in {r.ip_address : r \in {q \in rows :
                      SumOver({x \in rows : x.ip_address = q.ip_address}, log)
                          > SensitiveThreshold}}}

\* tasks.py 94-99
sensitive_access_ips(start, end) ==
    LET rows == {r \in RowsInRange(start, end) : r.path \in sensitive_paths}
        grouped == {[ip_address |-> k[1], path |-> k[2],
                     access_count |-> Count({r \in rows : r.ip_address = k[1] /\ r.path = k[2]})]
                    : k \in {<<r.ip_address, r.path>> : r \in rows}}
    IN {g \in grouped : g.access_count > SensitiveThreshold}

\* tasks.py 103-123
RECURSIVE SensitivePathLoop(_, _, _)
SensitivePathLoop(cands, fl, t) ==
    IF cands = <<>> THEN [flags |-> fl, ok |-> TRUE]
    ELSE LET ip_data == Head(cands)
             f == SuspiciousIP(ip_data.ip_address,
                               SensitiveReason(ip_data.access_count, ip_data.path),
                               ip_data.access_count, t)
         IN IF RecentlyFlagged(fl, ip_data.ip_address, SensitiveMarker, t)
            THEN SensitivePathLoop(Tail(cands), fl, t)
            ELSE Create(fl, f, SensitivePathLoop(Tail(cands), fl \cup {f}, t))

\* suspicious_patterns with request_count__gte
suspicious_patterns_gte(start, end) ==
    LET rows == {r \in DOMAIN log : start <= r.timestamp /\ r.timestamp <= end}
    IN {[ip_address |-> ip, request_count |-> SumOver({r \in rows : r.ip_address = ip}, log)]
        : ip \in {r.ip_address : r \in {q \in rows :
                      SumOver({x \in rows : x.ip_address = q.ip_address}, log)
                          >= BurstCandidateThreshold}}}

\* tasks.py 131-135
suspicious_patterns(start, end) ==
    LET rows == RowsInRange(start, end)
        grouped == {[ip_address |-> ip,
                     request_count |-> Count({r \in rows : r.ip_address = ip})]
                    : ip \in {r.ip_address : r \in rows}}
    IN {g \in grouped : g.request_count > BurstCandidateThreshold}

\* tasks.py 143-146
recent_requests(ip, start, end) ==
    {r \in RowsInRange(start, end) : r.ip_address = ip}

\* IsBurst with a duration of up to 300 seconds
IsBurstInclusive(count, duration) == ~(count < BurstMinCount) /\ duration <= BurstSeconds

\* tasks.py 148-156: the candidate's requests are a burst
IsBurst(count, duration) == ~(count < BurstMinCount) /\ duration < BurstSeconds

\* tasks.py 139-172
RECURSIVE PatternLoop(_, _, _, _, _)
PatternLoop(cands, fl, t, start, end) ==
    IF cands = <<>> THEN [flags |-> fl, ok |-> TRUE]
    ELSE LET ip_address == Head(cands).ip_address
             recent == recent_requests(ip_address, start, end)
             count == Count(recent)
             first_request == Min({r.timestamp : r \in recent})
             last_request == Max({r.timestamp : r \in recent})
             duration == last_request - first_request
             f == SuspiciousIP(ip_address, BurstReason(count, duration), count, t)
         IN IF count < BurstMinCount
            THEN PatternLoop(Tail(cands), fl, t, start, end)
            ELSE IF IsBurst(count, duration)
                 THEN IF RecentlyFlagged(fl, ip_address, BurstMarker, t)
                      THEN PatternLoop(Tail(cands), fl, t, start, end)
                      ELSE Create(fl, f, PatternLoop(Tail(cands), fl \cup {f}, t, start, end))
                 ELSE PatternLoop(Tail(cands), fl, t, start, end)

\* geo_anomalies without the exclude(country__in=...)
geo_anomalies_any_country(start, end) ==
    LET rows == {r \in DOMAIN log : /\ start <= r.timestamp /\ r.timestamp <= end
                                    /\ r.country # NULL}
    IN {[ip_address |-> k[1], country |-> k[2],
         request_count |-> SumOver({r \in rows : r.ip_address = k[1] /\ r.country = k[2]}, log)]
        : k \in {<<r.ip_address, r.country>> : r \in {q \in rows :
                      SumOver({x \in rows : x.ip_address = q.ip_address
                                            /\ x.country = q.country}, log)
                          > GeoThreshold}}}

\* tasks.py 180-187
geo_anomalies(start, end) ==
    LET rows == {r \in RowsInRange(start, end) :
                    r.country # NULL /\ r.country \notin common_countries}
        grouped == {[ip_address |-> k[1], country |-> k[2],
                     request_count |-> Count({r \in rows : r.ip_address = k[1] /\ r.country = k[2]})]
                    : k \in {<<r.ip_address, r.country>> : r \in rows}}
    IN {g \in grouped : g.request_count > GeoThreshold}

\* tasks.py 191-211
RECURSIVE GeoLoop(_, _, _)
GeoLoop(cands, fl, t) ==
    IF cands = <<>> THEN [flags |-> fl, ok |-> TRUE]
    ELSE LET ip_data == Head(cands)
             f == SuspiciousIP(ip_data.ip_address,
                               GeoReason(ip_data.request_count, ip_data.country),
                               ip_data.request_count, t)
         IN IF RecentlyFlagged(fl, ip_data.ip_address, GeoMarker, t)
            THEN GeoLoop(Tail(cands), fl, t)
            ELSE Create(fl, f, GeoLoop(Tail(cands), fl \cup {f}, t))

\* the order in which detect_anomalies calls the detectors, then the escalator
NextPc(d) == CASE d = "hv" -> "sp" [] d = "sp" -> "pa" [] d = "pa" -> "geo" [] d = "geo" -> "esc"

Candidates(d, start, end) ==
    CASE d = "hv" -> high_volume_ips(start, end)
      [] d = "sp" -> sensitive_access_ips(start, end)
      [] d = "pa" -> suspicious_patterns(start, end)
      [] d = "geo" -> geo_anomalies(start, end)

DetectorLoop(d, cands, fl, t, start, end) ==
    CASE d = "hv" -> HighVolumeLoop(cands, fl, t)
      [] d = "sp" -> SensitivePathLoop(cands, fl, t)
      [] d = "pa" -> PatternLoop(cands, fl, t, start, end)
      [] d = "geo" -> GeoLoop(cands, fl, t)

(***************************************************************************)
(* The escalator, auto_block_suspicious_ips.                               *)
(***************************************************************************)
Blocked(bl, ip) == \E b \in bl : b.ip_address = ip

BlockedIP(ip, reason, t) == [ip_address |-> ip, created_at |-> t, reason |-> reason]

\* suspicious_ips with flag_count__gt=3
suspicious_ips_gt(fl, t) ==
    LET rows == {f \in fl : f.detected_at > t - EscalationHours * Hour /\ ~f.is_resolved}
    IN {ip \in {f.ip_address : f \in rows} :
            Cardinality({f \in rows : f.ip_address = ip}) > EscalationThreshold}

\* suspicious_ips without the detected_at__gt filter
suspicious_ips_any_age(fl, t) ==
    LET rows == {f \in fl : ~f.is_resolved}
    IN {ip \in {f.ip_address : f \in rows} :
            Cardinality({f \in rows : f.ip_address = ip}) >= EscalationThreshold}

\* tasks.py 219-224
suspicious_ips(fl, t) ==
    LET rows == {f \in fl : f.detected_at > t - EscalationHours * Hour /\ ~f.is_resolved}
    IN {ip \in {f.ip_address : f \in rows} :
            Cardinality({f \in rows : f.ip_address = ip}) >= EscalationThreshold}

\* tasks.py 242-245
MarkAutoBlocked(fl, ip) ==
    {IF f.ip_address = ip /\ ~f.is_resolved THEN [f EXCEPT !.auto_blocked = TRUE] ELSE f
     : f \in fl}

\* BlockedIP.ip_address is unique: a second row for an ip raises IntegrityError
UniqueIp(bl, ip) == \A b \in bl : b.ip_address # ip

\* tasks.py 228-248; ok: the loop ran to its end
RECURSIVE AutoBlockLoop(_, _, _, _)
AutoBlockLoop(ips, fl, bl, t) ==
    IF ips = <<>> THEN [flags |-> fl, blocks |-> bl, ok |-> TRUE]
    ELSE LET ip_address == Head(ips)
         IN IF Blocked(bl, ip_address)
            THEN AutoBlockLoop(Tail(ips), fl, bl, t)
            ELSE IF UniqueIp(bl, ip_address)
                 THEN AutoBlockLoop(Tail(ips), MarkAutoBlocked(fl, ip_address),
                                    bl \cup {BlockedIP(ip_address, AutoBlockReason, t)}, t)
                 ELSE [flags |-> fl, blocks |-> bl, ok |-> FALSE]

\* the loop with "return auto_blocked_count" inside it: it ends after the
\* first ip it blocks
RECURSIVE AutoBlockLoopReturnsEarly(_, _, _, _)
AutoBlockLoopReturnsEarly(ips, fl, bl, t) ==
    IF ips = <<>> THEN [flags |-> fl, blocks |-> bl, ok |-> TRUE]
    ELSE LET ip_address == Head(ips)
         IN IF Blocked(bl, ip_address)
            THEN AutoBlockLoopReturnsEarly(Tail(ips), fl, bl, t)
            ELSE IF UniqueIp(bl, ip_address)
                 THEN [flags |-> MarkAutoBlocked(fl, ip_address),
                       blocks |-> bl \cup {BlockedIP(ip_address, AutoBlockReason, t)},
                       ok |-> TRUE]
                 ELSE [flags |-> fl, blocks |-> bl, ok |-> FALSE]

\* the loop with the update of the flags before the "already blocked" check
RECURSIVE AutoBlockLoopMarksFirst(_, _, _, _)
AutoBlockLoopMarksFirst(ips, fl, bl, t) ==
    IF ips = <<>> THEN [flags |-> fl, blocks |-> bl, ok |-> TRUE]
    ELSE LET ip_address == Head(ips)
             marked == MarkAutoBlocked(fl, ip_address)
         IN IF Blocked(bl, ip_address)
            THEN AutoBlockLoopMarksFirst(Tail(ips), marked, bl, t)
            ELSE IF UniqueIp(bl, ip_address)
                 THEN AutoBlockLoopMarksFirst(Tail(ips), marked,
                                    bl \cup {BlockedIP(ip_address, AutoBlockReason, t)}, t)
                 ELSE [flags |-> marked, blocks |-> bl, ok |-> FALSE]

\* the tables a raising pass of the loop leaves with the update of the flags
\* ahead of BlockedIP.objects.create
AutoBlockRaisesAfterUpdate(fl, bl, ip, written, t) ==
    [flags |-> MarkAutoBlocked(fl, ip),
     blocks |-> IF written THEN bl \cup {BlockedIP(ip, AutoBlockReason, t)} ELSE bl]

\* tasks.py 236-245: the tables the loop's pass for ip leaves when it raises,
\* in BlockedIP.objects.create (written = FALSE) or in the update after it
AutoBlockRaises(fl, bl, ip, written, t) ==
    [flags |-> fl,
     blocks |-> IF written THEN bl \cup {BlockedIP(ip, AutoBlockReason, t)} ELSE bl]

\* tasks.py 215-250
auto_block_suspicious_ips(order, fl, bl, t) == AutoBlockLoop(order, fl, bl, t)

\* old_resolved that takes the flags of any age
old_resolved_any_age(fl, t) == {f \in fl : f.is_resolved}

\* tasks.py 257-260
old_resolved(fl, t) ==
    {f \in fl : f.is_resolved /\ f.detected_at < t - RetentionDays * Day}

(***************************************************************************)
(* The state after the migrations: empty tables, no job running.           *)
(***************************************************************************)
Init ==
    /\ now = 0
    /\ log = <<>>
    /\ flags = {}
    /\ blocks = {}
    /\ pc = "idle"
    /\ window = <<0, 0>>
    /\ result = "none"
    /\ batches = 0
    /\ failures = 0
    /\ sweeps = 0
    /\ deleted_records = 0
    /\ runs = 0
    /\ other = [pc |-> "idle", window |-> <<0, 0>>, todo |-> <<>>]
    /\ sweep = <<>>
    /\ response = [ip_address |-> NULL, requests |-> 0, status |-> "none"]

(***************************************************************************)
(* The environment: the clock, the clients, the administrator.             *)
(***************************************************************************)
\* the clock moves on to the next of the instants; while a job runs, by
\* MaxRunDuration at most
Tick(instants) ==
    /\ \E t \in instants : t > now
    /\ LET t == Min({u \in instants : u > now})
       IN /\ pc # "idle" => t - window[2] <= MaxRunDuration
          /\ other.pc \notin {"idle", "done"} => t - other.window[2] <= MaxRunDuration
          /\ now' = t
    /\ UNCHANGED <<log, flags, blocks, pc, window, result, batches, failures, sweeps, deleted_records, runs, other, sweep, response>>

LogAdd(row, n) ==
    IF row \in DOMAIN log
    THEN [log EXCEPT ![row] = @ + n]
    ELSE [r \in DOMAIN log \cup {row} |-> IF r = row THEN n ELSE log[r]]

\* process_request with the RequestLog row written ahead of the BlockedIP check
process_request_logs_first(ip, path, country, n) ==
    /\ batches' = batches + 1
    /\ log' = LogAdd([ip_address |-> ip, timestamp |-> now,
                      path |-> path, country |-> country], n)
    /\ response' = [ip_address |-> ip, requests |-> n,
                    status |-> IF Blocked(blocks, ip) THEN "HttpResponseForbidden" ELSE "None"]
    /\ UNCHANGED <<now, flags, blocks, pc, window, result, failures, sweeps, deleted_records, runs, other, sweep>>

\* middleware.py 53-72, for n requests of one client arriving at the same instant
process_request(ip, path, country, n) ==
    /\ batches' = batches + 1
    /\ IF Blocked(blocks, ip)
       THEN /\ log' = log
            /\ response' = [ip_address |-> ip, requests |-> n,
                            status |-> "HttpResponseForbidden"]
       ELSE /\ log' = LogAdd([ip_address |-> ip, timestamp |-> now,
                              path |-> path, country |-> country], n)
            /\ response' = [ip_address |-> ip, requests |-> n, status |-> "None"]
    /\ UNCHANGED <<now, flags, blocks, pc, window, result, failures, sweeps, deleted_records, runs, other, sweep>>

\* block_ip.py 16-35
handle(ip, reason) ==
    /\ ~Blocked(blocks, ip)
    /\ blocks' = blocks \cup {BlockedIP(ip, reason, now)}
    /\ UNCHANGED <<now, log, flags, pc, window, result, batches, failures, sweeps, deleted_records, runs, other, sweep, response>>

\* the administrator resolves a flag
ManualResolve(f) ==
    /\ f \in flags
    /\ ~f.is_resolved
    /\ flags' = (flags \ {f}) \cup {[f EXCEPT !.is_resolved = TRUE]}
    /\ UNCHANGED <<now, log, blocks, pc, window, result, batches, failures, sweeps, deleted_records, runs, other, sweep, response>>

(***************************************************************************)
(* The detect_anomalies job: one step per call it makes.                   *)
(***************************************************************************)
\* tasks.py 22-26
detect_anomalies ==
    /\ pc = "idle"
    /\ runs' = runs + 1
    /\ window' = <<now - WindowHours * Hour, now>>
    /\ pc' = "hv"
    /\ UNCHANGED <<now, log, flags, blocks, result, batches, failures, sweeps, deleted_records, other, sweep, response>>

\* tasks.py 29-38: the detector at pc runs to its end
Detect(d) ==
    /\ pc = d
    /\ \E order \in Orderings(Candidates(d, window[1], window[2])) :
         LET r == DetectorLoop(d, order, flags, now, window[1], window[2])
         IN /\ flags' = r.flags
            /\ IF r.ok
               THEN pc' = NextPc(d) /\ result' = result /\ window' = window
               ELSE pc' = "idle" /\ result' = "raised" /\ window' = <<0, 0>>
    /\ UNCHANGED <<now, log, blocks, batches, failures, sweeps, deleted_records, runs, other, sweep, response>>

\* a store access of the detector at pc raises while it handles the candidate
\* after the k-th (or while it evaluates its query): nothing catches it,
\* detect_anomalies ends with the exception
DetectorFails(d) ==
    /\ pc = d
    /\ \E order \in Orderings(Candidates(d, window[1], window[2])) :
         \E k \in 0..Len(order) :
            /\ k < Len(order) \/ k = 0
            /\ flags' = DetectorLoop(d, SubSeq(order, 1, k), flags, now,
                                     window[1], window[2]).flags
    /\ pc' = "idle"
    /\ result' = "raised"
    /\ window' = <<0, 0>>
    /\ failures' = failures + 1
    /\ UNCHANGED <<now, log, blocks, batches, sweeps, deleted_records, runs, other, sweep, response>>

\* tasks.py 41-53
AutoBlock ==
    /\ pc = "esc"
    /\ \E order \in Orderings(suspicious_ips(flags, now)) :
         LET r == auto_block_suspicious_ips(order, flags, blocks, now)
         IN /\ flags' = r.flags
            /\ blocks' = r.blocks
            /\ result' = IF r.ok THEN "returned" ELSE "raised"
    /\ pc' = "idle"
    /\ window' = <<0, 0>>
    /\ UNCHANGED <<now, log, batches, failures, sweeps, deleted_records, runs, other, sweep, response>>

\* a store access of the escalator raises while it handles the candidate after
\* the k-th: before its BlockedIP row is written, or after it and before the
\* update of its flags
AutoBlockFails ==
    /\ pc = "esc"
    /\ \E order \in Orderings(suspicious_ips(flags, now)) :
         \E k \in 0..Len(order), written \in BOOLEAN :
            LET r == auto_block_suspicious_ips(SubSeq(order, 1, k), flags, blocks, now)
                q == IF k < Len(order)
                     THEN AutoBlockRaises(r.flags, r.blocks, order[k + 1], written, now)
                     ELSE r
            IN /\ k < Len(order) \/ (k = 0 /\ ~written)
               /\ written => ~Blocked(r.blocks, order[k + 1])
               /\ flags' = q.flags
               /\ blocks' = q.blocks
    /\ pc' = "idle"
    /\ result' = "raised"
    /\ window' = <<0, 0>>
    /\ failures' = failures + 1
    /\ UNCHANGED <<now, log, batches, sweeps, deleted_records, runs, other, sweep, response>>

\* tasks.py 257-262: the cleanup job reads the clock, builds its query and
\* counts the rows
cleanup_count ==
    /\ sweep = <<>>
    /\ sweep' = <<now>>
    /\ deleted_records' = Cardinality(old_resolved(flags, now))
    /\ UNCHANGED <<now, log, flags, blocks, pc, window, result, batches, failures, sweeps, runs, other, response>>

\* tasks.py 263-267: it deletes the rows its query selects now, and returns
\* the count it took
cleanup_delete ==
    /\ sweep # <<>>
    /\ flags' = flags \ old_resolved(flags, sweep[1])
    /\ sweep' = <<>>
    /\ sweeps' = sweeps + 1
    /\ UNCHANGED <<now, log, blocks, pc, window, result, batches, failures, deleted_records, runs, other, response>>

(***************************************************************************)
(* The system: the clock, the clients and the administrator between the    *)
(* jobs, and the hourly job.  At most one detect_anomalies job runs at a   *)
(* time (pc).                                                              *)
(***************************************************************************)
ManualBlocks == {b \in blocks : b.reason = CommandReason}
Resolved == {f \in flags : f.is_resolved}

Requests(batchSet, max) ==
    /\ batches < max
    /\ pc = "idle"
    /\ \E ip \in Ips, b \in batchSet : process_request(ip, b[1], b[2], b[3])

Commands ==
    /\ Cardinality(ManualBlocks) < MaxCommands
    /\ pc = "idle"
    /\ \E ip \in Ips : handle(ip, CommandReason)

Resolutions ==
    /\ Cardinality(Resolved) < MaxResolved
    /\ pc = "idle"
    /\ \E f \in flags : ManualResolve(f)

Job(max) == runs < max /\ detect_anomalies

Detectors == \E d \in {"hv", "sp", "pa", "geo"} : Detect(d)

Next ==
    \/ Tick(Instants)
    \/ Requests(Batches, MaxBatches)
    \/ Commands
    \/ Resolutions
    \/ Job(MaxRuns)
    \/ Detectors
    \/ AutoBlock

Spec == Init /\ [][Next]_vars

(***************************************************************************)
(* The system with store accesses that raise.                              *)
(***************************************************************************)
DetectorFaults ==
    failures < MaxFailures /\ \E d \in {"hv", "sp", "pa", "geo"} : DetectorFails(d)

EscalatorFaults == failures < MaxFailures /\ AutoBlockFails

NextFail ==
    \/ Tick(Instants)
    \/ Requests(Batches, MaxBatches)
    \/ Job(MaxRuns)
    \/ Detectors
    \/ DetectorFaults
    \/ AutoBlock
    \/ EscalatorFaults

SpecFail == Init /\ [][NextFail]_vars

(***************************************************************************)
(* One job over windows whose counts and spans lie at the detectors'       *)
(* thresholds.                                                             *)
(***************************************************************************)
NextDetect ==
    \/ Tick(DetectInstants)
    \/ Requests(DetectBatches, MaxDetectBatches)
    \/ Job(MaxDetectRuns)
    \/ Detectors
    \/ AutoBlock

SpecDetect == Init /\ [][NextDetect]_vars

(***************************************************************************)
(* The system with the daily cleanup job, over the retention period.       *)
(***************************************************************************)
\* tasks.py 252-267: the steps of the cleanup job
cleanup_old_suspicious_records ==
    \/ sweeps < MaxSweeps /\ cleanup_count
    \/ cleanup_delete

Cleanups == cleanup_old_suspicious_records

NextSweep ==
    \/ Tick(SweepInstants)
    \/ Requests(SweepBatches, MaxSweepBatches)
    \/ Resolutions
    \/ Job(MaxSweepRuns)
    \/ Detectors
    \/ AutoBlock
    \/ Cleanups

SpecSweep == Init /\ [][NextSweep]_vars

(***************************************************************************)
(* One job over windows whose per-path and per-country counts lie at the   *)
(* thresholds.                                                             *)
(***************************************************************************)
NextPairs ==
    \/ Tick(PairInstants)
    \/ Requests(PairBatches, MaxPairBatches)
    \/ Job(MaxPairRuns)
    \/ Detectors
    \/ AutoBlock

SpecPairs == Init /\ [][NextPairs]_vars

(***************************************************************************)
(* One job over the requests the application's routes serve.               *)
(***************************************************************************)
NextRoutes ==
    \/ Tick(RouteInstants)
    \/ Requests(RouteBatches, MaxRouteBatches)
    \/ Job(MaxRouteRuns)
    \/ Detectors
    \/ AutoBlock

SpecRoutes == Init /\ [][NextRoutes]_vars

(***************************************************************************)
(* A second detect_anomalies job that starts while the first one runs (the  *)
(* beat schedule does not prevent it).  Its first detector is modelled      *)
(* query by query: the "flagged recently" check of a candidate and the      *)
(* create that follows it are two store accesses.                           *)
(***************************************************************************)
\* tasks.py 23-24, 58-62: the second job reads the clock and runs the query of
\* detect_high_volume_requests
OverlapStart ==
    /\ other.pc = "idle"
    /\ pc # "idle"
    /\ \E order \in Orderings(high_volume_ips(now - WindowHours * Hour, now)) :
         other' = [pc |-> "check", window |-> <<now - WindowHours * Hour, now>>,
                   todo |-> order]
    /\ UNCHANGED <<now, log, flags, blocks, pc, window, result, batches, failures, sweeps, deleted_records, runs, sweep, response>>

\* tasks.py 66-75: the next candidate and its "flagged recently" check
OverlapCheck ==
    /\ other.pc = "check"
    /\ other' = IF other.todo = <<>>
                THEN [other EXCEPT !.pc = "sp"]
                ELSE IF RecentlyFlagged(flags, Head(other.todo).ip_address,
                                        HighVolumeMarker, now)
                     THEN [other EXCEPT !.todo = Tail(@)]
                     ELSE [other EXCEPT !.pc = "create"]
    /\ UNCHANGED <<now, log, flags, blocks, pc, window, result, batches, failures, sweeps, deleted_records, runs, sweep, response>>

\* tasks.py 78-82: the create for the candidate that passed the check; a row
\* with the same ip_address, reason and detected_at raises IntegrityError
OverlapCreate ==
    /\ other.pc = "create"
    /\ LET ip_data == Head(other.todo)
           f == SuspiciousIP(ip_data.ip_address, HighVolumeReason(ip_data.request_count),
                             ip_data.request_count, now)
       IN IF UniqueTogether(flags, f)
          THEN /\ flags' = flags \cup {f}
               /\ other' = [other EXCEPT !.pc = "check", !.todo = Tail(@)]
          ELSE /\ flags' = flags
               /\ other' = [other EXCEPT !.pc = "done", !.todo = <<>>]
    /\ UNCHANGED <<now, log, blocks, pc, window, result, batches, failures, sweeps, deleted_records, runs, sweep, response>>

\* tasks.py 32-38: the second job's other detectors
OverlapDetect(d) ==
    /\ other.pc = d
    /\ \E order \in Orderings(Candidates(d, other.window[1], other.window[2])) :
         LET r == DetectorLoop(d, order, flags, now, other.window[1], other.window[2])
         IN /\ flags' = r.flags
            /\ other' = [other EXCEPT !.pc = IF r.ok THEN NextPc(d) ELSE "done"]
    /\ UNCHANGED <<now, log, blocks, pc, window, result, batches, failures, sweeps, deleted_records, runs, sweep, response>>

\* tasks.py 41: the second job's escalator
OverlapAutoBlock ==
    /\ other.pc = "esc"
    /\ \E order \in Orderings(suspicious_ips(flags, now)) :
         LET r == auto_block_suspicious_ips(order, flags, blocks, now)
         IN flags' = r.flags /\ blocks' = r.blocks
    /\ other' = [other EXCEPT !.pc = "done"]
    /\ UNCHANGED <<now, log, pc, window, result, batches, failures, sweeps, deleted_records, runs, sweep, response>>

OverlapDetectors == \E d \in {"sp", "pa", "geo"} : OverlapDetect(d)

NextOverlap ==
    \/ Tick(OverlapInstants)
    \/ Requests(OverlapBatches, MaxOverlapBatches)
    \/ Job(MaxOverlapRuns)
    \/ Detectors
    \/ AutoBlock
    \/ OverlapStart
    \/ OverlapCheck
    \/ OverlapCreate
    \/ OverlapDetectors
    \/ OverlapAutoBlock

SpecOverlap == Init /\ [][NextOverlap]_vars

(***************************************************************************)
(* The claims.                                                             *)
(***************************************************************************)
\* the category of a flag: the marker its reason starts with
Category(f) == Head(f.reason)

Abs(x) == IF x < 0 THEN -x ELSE x

\* C1: with one job at a time, in every state reached by jobs, re-runs and
\* manual resolutions, no two flags of the same ip and category have
\* detected_at less than 6 hours apart; in particular one job leaves at most
\* one flag per (ip, category), however many (ip, path) or (ip, country) pairs
\* of the ip qualify.
C1_CooldownSeparatesFlags ==
    \A f, g \in flags :
        (f # g /\ f.ip_address = g.ip_address /\ Category(f) = Category(g))
            => Abs(f.detected_at - g.detected_at) >= 6 * 3600

\* a flag was raised again for an (ip, category) flagged, and resolved, before
C1_Witness ==
    \E f, g \in flags :
        /\ f # g /\ f.ip_address = g.ip_address /\ Category(f) = Category(g)
        /\ f.is_resolved
        /\ g.detected_at - f.detected_at = 6 * 3600

\* the unresolved flags of an ip raised in the last 24 hours
UnresolvedRecent(ip) ==
    {f \in flags : f.ip_address = ip /\ ~f.is_resolved /\ now - f.detected_at < 24 * 3600}

BlockEntries(bl, ip) == {b \in bl : b.ip_address = ip}
FlagsOf(fl, ip) == {f \in fl : f.ip_address = ip}

\* the step in which the escalator, and with it the job, returns
EscalatorReturns == pc = "esc" /\ pc' = "idle" /\ result' = "returned"

\* C2: when a job completes, every ip that had at least 3 unresolved flags of
\* the last 24 hours (of any category, of this job or older) and no BlockEntry
\* when the escalator ran has exactly one BlockEntry, with the auto-block
\* reason, and all its unresolved flags have auto_blocked = true.
C2_CompletedRunBlocks ==
    [][EscalatorReturns =>
         \A ip \in Ips :
            (Cardinality(UnresolvedRecent(ip)) >= 3 /\ BlockEntries(blocks, ip) = {})
                => /\ Cardinality(BlockEntries(blocks', ip)) = 1
                   /\ \A b \in BlockEntries(blocks', ip) : b.reason = AutoBlockReason
                   /\ \A f \in FlagsOf(flags', ip) : ~f.is_resolved => f.auto_blocked]_vars

\* a job completed and blocked an ip on one flag of this job and two older ones
C2_Witness ==
    /\ pc = "idle" /\ result = "returned"
    /\ \E ip \in Ips, b \in blocks :
         /\ b.ip_address = ip /\ b.reason = AutoBlockReason /\ b.created_at = now
         /\ Cardinality({f \in FlagsOf(flags, ip) : f.auto_blocked /\ ~f.is_resolved}) = 3
         /\ Cardinality({f \in FlagsOf(flags, ip) : f.detected_at = now}) = 1
         /\ Cardinality({f \in FlagsOf(flags, ip) : f.detected_at < now}) = 2

\* C3: escalation is idempotent and monotonic: there is at most one
\* BlockEntry per ip, and when the escalator runs, a second run of it over the
\* tables the first leaves, then or later, creates no BlockEntry and changes
\* no flag.
C3_EscalationIdempotent ==
    /\ \A ip \in Ips : Cardinality(BlockEntries(blocks, ip)) <= 1
    /\ pc = "esc" =>
         \A o1 \in Orderings(suspicious_ips(flags, now)) :
            LET first == auto_block_suspicious_ips(o1, flags, blocks, now)
            IN \A t \in {u \in Instants : u >= now} :
                  \A o2 \in Orderings(suspicious_ips(first.flags, t)) :
                     LET second == auto_block_suspicious_ips(o2, first.flags, first.blocks, t)
                     IN /\ second.blocks = first.blocks
                        /\ second.flags = first.flags

\* the escalator is about to run again over two ips the job before auto-blocked
C3_Witness ==
    /\ pc = "esc" /\ runs = 2
    /\ \A ip \in Ips :
         /\ ip \in suspicious_ips(flags, now)
         /\ \E b \in blocks : b.ip_address = ip /\ b.reason = AutoBlockReason
         /\ \A f \in FlagsOf(flags, ip) : f.auto_blocked

\* C4: the escalator creates a BlockEntry for an ip only if the ip has, when
\* it scans, at least 3 unresolved flags of the last 24 hours; resolved flags
\* and older flags do not count.
C4_BlocksOnlyAtThreshold ==
    [][\A b \in blocks' \ blocks :
          b.reason = AutoBlockReason => Cardinality(UnresolvedRecent(b.ip_address)) >= 3]_vars

\* a job completed and left unblocked an ip with 3 flags of the last 24 hours,
\* one of them resolved
C4_Witness ==
    /\ pc = "idle" /\ result = "returned" /\ runs = 2
    /\ \E ip \in Ips :
         /\ BlockEntries(blocks, ip) = {}
         /\ Cardinality({f \in FlagsOf(flags, ip) : now - f.detected_at < 24 * 3600}) = 3
         /\ Cardinality(UnresolvedRecent(ip)) = 2
         /\ \E f \in FlagsOf(flags, ip) : f.detected_at = now

\* what the four detectors look for, per ip, in the window from start to end
EventRows(ip, start, end) ==
    {r \in DOMAIN log : r.ip_address = ip /\ start <= r.timestamp /\ r.timestamp <= end}
Events(rows) == SumOver(rows, log)
Span(rows) == Max({r.timestamp : r \in rows}) - Min({r.timestamp : r \in rows})

Qualifies(d, ip, start, end) ==
    LET rows == EventRows(ip, start, end)
    IN CASE d = "hv" -> Events(rows) > 100
         [] d = "sp" -> \E p \in {"/admin", "/login", "/api/sensitive", "/password-reset", "/api/login"} :
                            Events({r \in rows : r.path = p}) > 5
         [] d = "pa" -> Events(rows) > 50 /\ Span(rows) < 300
         [] d = "geo" -> \E c \in {r.country : r \in rows} \ {"US", "CA", "GB", "DE", "FR", "Local", "Unknown", NULL} :
                            Events({r \in rows : r.country = c}) > 20

CategoryOf(d) ==
    CASE d = "hv" -> "High volume" [] d = "sp" -> "Sensitive path access"
      [] d = "pa" -> "Burst pattern" [] d = "geo" -> "Geographic anomaly"

DetectorNames == {"hv", "sp", "pa", "geo"}

\* the step in which detector d returns
DetectorReturns(d) == pc = d /\ pc' = NextPc(d)

\* a flag of the ip and of d's category, resolved or not, of the last 6 hours
InCooldown(d, ip) ==
    \E g \in flags : /\ g.ip_address = ip
                     /\ Category(g) = CategoryOf(d)
                     /\ now - g.detected_at < 6 * 3600

\* the flags the step creates for the ip
Created(ip) == {f \in flags' \ flags : f.ip_address = ip /\ f.detected_at = now}

\* C8: for each detector, a qualifying candidate (ip, category) results in a new
\* flag, with resolved = false and auto_blocked = false, if and only if no flag
\* of the same ip and category, resolved or not, has detected_at within the
\* last 6 hours; flags of the ip of another category do not suppress it.
C8_CreatedIffNoRecentSameCategory ==
    [][\A d \in DetectorNames, ip \in Ips :
          (DetectorReturns(d) /\ Qualifies(d, ip, window[1], window[2]))
              => /\ (Created(ip) # {}) <=> ~InCooldown(d, ip)
                 /\ \A f \in Created(ip) : /\ Category(f) = CategoryOf(d)
                                           /\ ~f.is_resolved
                                           /\ ~f.auto_blocked]_vars

\* the burst detector has just skipped an ip whose burst flag of the last 6
\* hours is resolved; the high-volume detector flagged the same ip in this run
C8_Witness ==
    /\ pc = "geo"
    /\ \E ip \in Ips :
         /\ Qualifies("pa", ip, window[1], window[2])
         /\ \E g \in FlagsOf(flags, ip) :
               /\ Category(g) = "Burst pattern" /\ g.is_resolved
               /\ g.detected_at < now /\ now - g.detected_at < 6 * 3600
         /\ \A g \in FlagsOf(flags, ip) : Category(g) = "Burst pattern" => g.detected_at < now
         /\ \E g \in FlagsOf(flags, ip) :
               Category(g) = "High volume" /\ g.detected_at = now /\ ~g.is_resolved

\* C9: for an ip that has a BlockEntry, made by block_ip or by an earlier
\* auto-block, the detectors still create flags when it qualifies, and the
\* escalator creates no BlockEntry for it and changes no field of its flags,
\* however many unresolved flags it has.
C9_BlockedIpShortCircuits ==
    [][\A ip \in Ips :
          BlockEntries(blocks, ip) # {} =>
             /\ pc = "esc" => /\ BlockEntries(blocks', ip) = BlockEntries(blocks, ip)
                              /\ FlagsOf(flags', ip) = FlagsOf(flags, ip)
             /\ \A d \in DetectorNames :
                   (DetectorReturns(d) /\ Qualifies(d, ip, window[1], window[2])
                        /\ ~InCooldown(d, ip))
                      => Created(ip) # {}]_vars

\* a job completed that flagged an ip blocked by block_ip before, and left its
\* three unresolved flags as they were
C9_Witness ==
    /\ pc = "idle" /\ result = "returned"
    /\ \E ip \in Ips :
         /\ BlockEntries(blocks, ip) # {}
         /\ \A b \in BlockEntries(blocks, ip) : b.reason = CommandReason /\ b.created_at < now
         /\ Cardinality(UnresolvedRecent(ip)) >= 3
         /\ \A f \in FlagsOf(flags, ip) : ~f.auto_blocked
         /\ \E f \in FlagsOf(flags, ip) : f.detected_at = now

\* C5: the cleanup deletes exactly the flags with resolved = true and
\* detected_at more than 30 days before the sweep time; it deletes no flag with
\* resolved = false whatever its age and its auto_blocked, and it leaves every
\* other flag, every request event and every BlockEntry unchanged.
C5_SweepDeletesExactlyOldResolved ==
    [][sweeps' = sweeps + 1 =>
          /\ flags' = {f \in flags : ~(f.is_resolved /\ sweep[1] - f.detected_at > 30 * 86400)}
          /\ \A f \in flags : ~f.is_resolved => f \in flags'
          /\ log' = log
          /\ blocks' = blocks]_vars

\* a cleanup deleted a flag and left an unresolved, auto-blocked flag of the
\* same age and the BlockEntry in place
C5_Witness ==
    /\ sweeps >= 1 /\ deleted_records >= 1
    /\ blocks # {}
    /\ \E f \in flags : /\ ~f.is_resolved /\ f.auto_blocked
                        /\ now - f.detected_at > 30 * 86400

\* C6: for every window, the ips the high-volume detector selects are exactly
\* the ips with more than 100 events in the window; an ip with 100 events or
\* fewer is never high-volume flagged, and the flag's evidence count is the
\* ip's exact event count in the window.
C6_HighVolumeExactlyAboveHundred ==
    [][DetectorReturns("hv") =>
          /\ {c.ip_address : c \in high_volume_ips(window[1], window[2])}
                = {ip \in Ips : Events(EventRows(ip, window[1], window[2])) > 100}
          /\ \A f \in flags' \ flags :
                /\ Category(f) = "High volume"
                /\ Events(EventRows(f.ip_address, window[1], window[2])) > 100
                /\ f.request_count = Events(EventRows(f.ip_address, window[1], window[2]))
          /\ \A ip \in Ips :
                (Events(EventRows(ip, window[1], window[2])) > 100 /\ ~InCooldown("hv", ip))
                    => Created(ip) # {}]_vars

\* the high-volume detector has flagged an ip with 101 events in the window
\* and has passed over one with exactly 100
C6_Witness ==
    /\ pc = "sp"
    /\ \E a, b \in Ips :
         /\ Events(EventRows(a, window[1], window[2])) = 101
         /\ \E f \in FlagsOf(flags, a) : /\ Category(f) = "High volume"
                                         /\ f.detected_at = now
                                         /\ f.request_count = 101
         /\ Events(EventRows(b, window[1], window[2])) = 100
         /\ \A f \in FlagsOf(flags, b) : Category(f) # "High volume"

\* C7: the burst detector never creates a flag for an ip whose span between
\* its first and its last event in the window is 300 seconds or more, however
\* many events the ip has in the window.
C7_BurstNeverFlagsLongSpan ==
    [][DetectorReturns("pa") =>
          \A f \in flags' \ flags :
             /\ Category(f) = "Burst pattern"
             /\ Span(EventRows(f.ip_address, window[1], window[2])) < 300]_vars

\* the burst detector has passed over an ip with more than 50 events spanning
\* exactly 300 seconds of the window
C7_Witness ==
    /\ pc = "geo"
    /\ \E ip \in Ips :
         /\ Events(EventRows(ip, window[1], window[2])) > 50
         /\ Span(EventRows(ip, window[1], window[2])) = 300
         /\ \A f \in FlagsOf(flags, ip) : Category(f) # "Burst pattern"

\* C10: detector failures are isolated: when a detector fails while it
\* processes a candidate, the run goes on with the next detector (and so to
\* the escalator) in the same invocation.
C10_DetectorFailuresIsolated ==
    [][(/\ pc \in DetectorNames
        /\ Candidates(pc, window[1], window[2]) # {}
        /\ failures' = failures + 1) => pc' = NextPc(pc)]_vars

\* the step in which the escalator raises
EscalatorRaises == pc = "esc" /\ failures' = failures + 1

\* C11: if the BlockEntry write for a qualifying ip fails during escalation,
\* none of the ip's flags is changed (the unresolved ones stay
\* auto_blocked = false), and on the next run with otherwise unchanged state
\* the ip is evaluated again and qualifies for blocking.
C11_FailedBlockWriteLeavesFlags ==
    [][EscalatorRaises =>
          \A ip \in suspicious_ips(flags, now) :
             ~Blocked(blocks', ip) =>
                /\ FlagsOf(flags', ip) = FlagsOf(flags, ip)
                /\ \A f \in FlagsOf(flags', ip) : ~f.is_resolved => ~f.auto_blocked
                /\ ip \in suspicious_ips(flags', now)
                /\ \A order \in Orderings(suspicious_ips(flags', now)) :
                      LET r == auto_block_suspicious_ips(order, flags', blocks', now)
                      IN /\ \E b \in r.blocks : /\ b.ip_address = ip
                                                /\ b.reason = AutoBlockReason
                         /\ \A f \in FlagsOf(r.flags, ip) :
                               ~f.is_resolved => f.auto_blocked]_vars

\* the job raised in the escalator: the only client has a flag of each of
\* the four detectors, all unresolved and not auto-blocked, and no BlockEntry
C11_Witness ==
    /\ pc = "idle" /\ result = "raised" /\ failures = 1
    /\ blocks = {}
    /\ Cardinality(DOMAIN log) = 1
    /\ \E ip \in Ips :
         /\ ip \in suspicious_ips(flags, now)
         /\ Cardinality(FlagsOf(flags, ip)) = 4
         /\ \A f \in FlagsOf(flags, ip) : ~f.is_resolved /\ ~f.auto_blocked

\* C12: a detection run that fails between two store writes and is then
\* re-run to completion leaves the stores as an uninterrupted run would: in
\* particular, once a run has completed, the flags of every auto-blocked ip
\* that were unresolved when its BlockEntry was written are auto_blocked.
C12_RerunCompletesMarkings ==
    (pc = "idle" /\ result = "returned") =>
        \A b \in blocks :
           b.reason = AutoBlockReason =>
              \A f \in FlagsOf(flags, b.ip_address) :
                 (~f.is_resolved /\ f.detected_at <= b.created_at) => f.auto_blocked

\* two flags of one ip and one category less than 6 hours apart
DuplicateFlags ==
    {p \in flags \X flags :
        /\ p[1] # p[2]
        /\ p[1].ip_address = p[2].ip_address
        /\ Category(p[1]) = Category(p[2])
        /\ Abs(p[1].detected_at - p[2].detected_at) < 6 * 3600}

\* C13: the cool-down check followed by the create is not atomic: when two
\* detection jobs overlap, both can pass the check for the same (ip, category)
\* and each create a flag, so that two flags of the same ip and category less
\* than 6 hours apart exist; no such two flags exist unless a second job has
\* overlapped the first.
C13_DuplicatesOnlyByOverlap == DuplicateFlags # {} => other.pc # "idle"

\* both jobs have flagged the same ip for high volume, a second apart
C13_Witness ==
    \E p \in DuplicateFlags :
        /\ Category(p[1]) = "High volume"
        /\ p[1].request_count = p[2].request_count
        /\ p[2].detected_at - p[1].detected_at = 1

\* the orders in which the four detectors can run
DetectorPerms == Orderings(DetectorNames)

\* one iteration order of the candidates of each detector
DetectorOrders(start, end) ==
    [d \in DetectorNames |-> CHOOSE o \in Orderings(Candidates(d, start, end)) : TRUE]

\* the flags table after the detectors of seq have run one after the other,
\* each over its candidates in the order ord gives
RECURSIVE RunDetectors(_, _, _, _, _, _)
RunDetectors(seq, ord, fl, t, start, end) ==
    IF seq = <<>> THEN fl
    ELSE RunDetectors(Tail(seq), ord,
                      DetectorLoop(Head(seq), ord[Head(seq)], fl, t, start, end).flags,
                      t, start, end)

OwnCategory(fl, d) == {f \in fl : Category(f) = CategoryOf(d)}

\* C14: within one run the four detectors are independent: for a fixed window
\* and starting state, every execution order of the four detectors yields the
\* same set of created flags, because each detector reads only the event
\* window and the flags of its own category and writes only flags of its own
\* category.
C14_DetectorsIndependent ==
    pc = "hv" =>
       \A ord \in {DetectorOrders(window[1], window[2])} :
       \A inOrder \in {RunDetectors(<<"hv", "sp", "pa", "geo">>, ord, flags, now,
                                    window[1], window[2])} :
          /\ \A perm \in DetectorPerms :
                RunDetectors(perm, ord, flags, now, window[1], window[2]) = inOrder
          /\ \A d \in DetectorNames :
                LET all == DetectorLoop(d, ord[d], flags, now, window[1], window[2]).flags
                    own == DetectorLoop(d, ord[d], OwnCategory(flags, d), now,
                                        window[1], window[2]).flags
                IN /\ all \ flags = own \ OwnCategory(flags, d)
                   /\ \A f \in all \ flags : Category(f) = CategoryOf(d)

\* a job starts that will flag an ip in three categories, while the ip has a
\* flag of a fourth category of the last 6 hours
C14_Witness ==
    /\ pc = "hv"
    /\ \E ip \in Ips :
         /\ \E g \in FlagsOf(flags, ip) : now - g.detected_at < 6 * 3600
         /\ Cardinality({Category(f) :
                 f \in FlagsOf(RunDetectors(<<"geo", "pa", "sp", "hv">>,
                                            DetectorOrders(window[1], window[2]),
                                            flags, now, window[1], window[2]), ip)
                         \ flags}) = 3

\* C15: each of the four detectors has no effect other than inserting new
\* flags: it leaves every request event, every BlockEntry and every field of
\* every flag that exists already unchanged.
C15_DetectorsOnlyInsertFlags ==
    [][(pc \in DetectorNames) =>
          /\ log' = log
          /\ blocks' = blocks
          /\ flags \subseteq flags'
          /\ \A f \in flags' \ flags : f.detected_at = now]_vars

\* the burst detector has flagged an ip that has an older burst flag, with
\* a BlockEntry in the block list
C15_Witness ==
    /\ pc = "geo"
    /\ blocks # {}
    /\ \E f, g \in flags :
         /\ f.ip_address = g.ip_address
         /\ Category(f) = "Burst pattern" /\ Category(g) = "Burst pattern"
         /\ f.detected_at = now /\ g.detected_at < now

\* the events of the ip in the window with the path, with the country
PathEvents(ip, p, start, end) == Events({r \in EventRows(ip, start, end) : r.path = p})
CountryEvents(ip, c, start, end) == Events({r \in EventRows(ip, start, end) : r.country = c})

FivePaths == {"/admin", "/login", "/api/sensitive", "/password-reset", "/api/login"}
AllowList == {"US", "CA", "GB", "DE", "FR", "Local", "Unknown"}
PathsSeen == {r.path : r \in DOMAIN log}
CountriesSeen == {r.country : r \in DOMAIN log}

\* C16: the sensitive-path detector counts only events whose path is one of
\* the five sensitive paths, per (ip, path) pair, and selects a pair exactly
\* when its count in the window exceeds 5; counts of different paths of one ip
\* are never added together, so an ip with at most 5 events on each sensitive
\* path is never sensitive-path flagged.
C16_SensitivePerPathAboveFive ==
    [][DetectorReturns("sp") =>
          /\ {<<c.ip_address, c.path>> : c \in sensitive_access_ips(window[1], window[2])}
                = {k \in Ips \X PathsSeen :
                      k[2] \in FivePaths /\ PathEvents(k[1], k[2], window[1], window[2]) > 5}
          /\ \A c \in sensitive_access_ips(window[1], window[2]) :
                c.access_count = PathEvents(c.ip_address, c.path, window[1], window[2])
          /\ \A f \in flags' \ flags :
                /\ Category(f) = "Sensitive path access"
                /\ \E p \in FivePaths :
                      PathEvents(f.ip_address, p, window[1], window[2]) > 5]_vars

\* the sensitive-path detector has flagged an ip with 6 events on /admin and
\* has passed over one with 5 on /admin and 5 on /login
C16_Witness ==
    /\ pc = "pa"
    /\ \E a, b \in Ips :
         /\ PathEvents(a, "/admin", window[1], window[2]) = 6
         /\ \E f \in FlagsOf(flags, a) : Category(f) = "Sensitive path access"
         /\ PathEvents(b, "/admin", window[1], window[2]) = 5
         /\ PathEvents(b, "/login", window[1], window[2]) = 5
         /\ \A f \in FlagsOf(flags, b) : Category(f) # "Sensitive path access"

\* C17: the geo detector counts only events whose country is non-null and not
\* one of US, CA, GB, DE, FR, Local, Unknown, per (ip, country) pair, and
\* selects a pair exactly when its count in the window exceeds 20; an ip whose
\* events in the window all have a null or allow-listed country is never
\* geo flagged.
C17_GeoPerCountryAboveTwenty ==
    [][DetectorReturns("geo") =>
          /\ {<<c.ip_address, c.country>> : c \in geo_anomalies(window[1], window[2])}
                = {k \in Ips \X CountriesSeen :
                      /\ k[2] # NULL /\ k[2] \notin AllowList
                      /\ CountryEvents(k[1], k[2], window[1], window[2]) > 20}
          /\ \A c \in geo_anomalies(window[1], window[2]) :
                c.request_count = CountryEvents(c.ip_address, c.country, window[1], window[2])
          /\ \A f \in flags' \ flags :
                /\ Category(f) = "Geographic anomaly"
                /\ \E c \in CountriesSeen \ (AllowList \cup {NULL}) :
                      CountryEvents(f.ip_address, c, window[1], window[2]) > 20]_vars

\* the geo detector has flagged an ip with 21 events from CN and has passed
\* over one with 21 events from US and 21 with no country
C17_Witness ==
    /\ pc = "esc"
    /\ \E a, b \in Ips :
         /\ CountryEvents(a, "CN", window[1], window[2]) = 21
         /\ \E f \in FlagsOf(flags, a) : Category(f) = "Geographic anomaly"
         /\ CountryEvents(b, "US", window[1], window[2]) = 21
         /\ CountryEvents(b, NULL, window[1], window[2]) = 21
         /\ \A f \in FlagsOf(flags, b) : Category(f) # "Geographic anomaly"

\* the events of the ip in the half-open window from start up to end
HalfOpenEvents(ip, start, end) ==
    Events({r \in DOMAIN log : r.ip_address = ip /\ start <= r.timestamp /\ r.timestamp < end})

\* C18: every detector aggregates over the half-open window [start, end): an
\* event whose timestamp equals end is not counted in that run.
C18_WindowIsHalfOpen ==
    [][DetectorReturns("hv") =>
          \A f \in flags' \ flags :
             /\ HalfOpenEvents(f.ip_address, window[1], window[2]) > 100
             /\ f.request_count = HalfOpenEvents(f.ip_address, window[1], window[2])]_vars

\* C19: the burst detector creates a flag (subject to the cool-down) for an
\* ip exactly when the ip has more than 50 events in the window and the span
\* from its first to its last event in the window is under 300 seconds; an ip
\* with exactly 50 events is never flagged, and the span is taken over all of
\* the ip's events in the window.
C19_BurstExactlyAboveFiftyUnderSpan ==
    [][DetectorReturns("pa") =>
          \A ip \in Ips :
             LET rows == EventRows(ip, window[1], window[2])
             IN /\ (Created(ip) # {})
                      <=> (/\ Events(rows) > 50
                           /\ Span(rows) < 300
                           /\ ~InCooldown("pa", ip))
                /\ \A f \in Created(ip) : /\ Category(f) = "Burst pattern"
                                          /\ f.request_count = Events(rows)]_vars

\* the burst detector has passed over an ip with exactly 50 events at one
\* instant and has flagged an ip with 51 events spanning 299 seconds
C19_Witness ==
    /\ pc = "geo"
    /\ \E a, b \in Ips :
         /\ Events(EventRows(a, window[1], window[2])) = 50
         /\ Span(EventRows(a, window[1], window[2])) = 0
         /\ \A f \in FlagsOf(flags, a) : Category(f) # "Burst pattern"
         /\ Events(EventRows(b, window[1], window[2])) = 51
         /\ Span(EventRows(b, window[1], window[2])) = 299
         /\ \E f \in FlagsOf(flags, b) : Category(f) = "Burst pattern" /\ f.detected_at = now

\* C20: the deleted_records count the cleanup returns equals the number of
\* flags the sweep removed, also when a flag older than 30 days is resolved
\* between the cleanup's count and its delete.
C20_DeletedCountIsRemoved ==
    [][sweeps' = sweeps + 1 => deleted_records' = Cardinality(flags \ flags')]_vars

\* the step in which the middleware answers a batch of requests
RequestServed == batches' = batches + 1

\* all the request events in the log
AllEvents(lg) == SumOver(DOMAIN lg, lg)

\* C21: once an ip has a BlockEntry, every later request from the ip is
\* rejected with a forbidden response and appends no request event, for good
\* (no operation removes a BlockEntry); every request from an ip without a
\* BlockEntry appends exactly one request event and is passed on.
C21_BlockedRejectedOthersLogged ==
    [][/\ blocks \subseteq blocks'
       /\ RequestServed =>
             LET ip == response'.ip_address
                 n == response'.requests
             IN IF BlockEntries(blocks, ip) # {}
                THEN /\ response'.status = "HttpResponseForbidden"
                     /\ log' = log
                ELSE /\ response'.status = "None"
                     /\ AllEvents(log') = AllEvents(log) + n
                     /\ SumOver({r \in DOMAIN log' : r.ip_address = ip /\ r.timestamp = now},
                                log')
                           = n + SumOver({r \in DOMAIN log : r.ip_address = ip
                                                             /\ r.timestamp = now}, log)]_vars

\* an ip whose requests were logged was auto-blocked, and its next requests
\* were answered with the forbidden response
C21_Witness ==
    /\ response.status = "HttpResponseForbidden"
    /\ \E b \in blocks : b.ip_address = response.ip_address /\ b.reason = AutoBlockReason
    /\ \E r \in DOMAIN log : r.ip_address = response.ip_address
    /\ batches = 2

\* C22: in every reachable state, every flag with auto_blocked = true belongs
\* to an ip that has a BlockEntry: the escalator sets auto_blocked only after
\* it has created the ip's BlockEntry, and no other operation sets it.
C22_AutoBlockedImpliesBlockEntry ==
    \A f \in flags : f.auto_blocked => BlockEntries(blocks, f.ip_address) # {}

\* the escalator raised on one ip after it had blocked another and marked
\* that one's flags
C22_Witness ==
    /\ result = "raised" /\ failures = 1
    /\ \E f \in flags : f.auto_blocked
    /\ \E ip \in Ips : /\ ip \in suspicious_ips(flags, now)
                       /\ \A f \in FlagsOf(flags, ip) : ~f.auto_blocked

\* the routed endpoints the claim names
RoutedSensitive == {"/api/login/", "/api/sensitive/", "/admin/"} \cap urlpatterns

\* C23: requests served at the routed sensitive endpoints are logged with a
\* path the sensitive-path detector counts, so more than 5 such requests of
\* one ip that is not blocked to one of these endpoints inside the window
\* produce a sensitive-path flag at the next detection run.
C23_RoutedEndpointsFlagged ==
    [][DetectorReturns("sp") =>
          \A ip \in Ips, p \in RoutedSensitive :
             (PathEvents(ip, p, window[1], window[2]) > 5 /\ ~InCooldown("sp", ip))
                => \E f \in Created(ip) : Category(f) = "Sensitive path access"]_vars

====
